---- MODULE Spec2Model ----
(***************************************************************************)
(* Model of the GridNFT contract (packages/hardhat/contracts/              *)
(* YourContract.sol): a 16x16 grid of ERC-721 tokens, ids 1..256, each     *)
(* mintable once, with an RGB color only the token's owner can change.     *)
(*                                                                         *)
(* Every external call is one transaction and one action.  A transaction   *)
(* that reverts leaves the contract state as it was; the variable `last`   *)
(* is the receipt of the latest transaction (function, msg.sender,         *)
(* arguments, the revert reason or OK, and the events it emitted).         *)
(* `claimant` is the indexed `minter` field of the GridBoxMinted event of  *)
(* each token id, i.e. who claimed the cell.                               *)
(* `events` is the log of GridBoxMinted and ColorUpdated events; it is     *)
(* accumulated by the specification SpecLog and left empty by the others,  *)
(* which read a transaction's events from its receipt.                     *)
(*                                                                         *)
(* The page (packages/nextjs/app/page.tsx) is the React state of the Home  *)
(* component, `page`, and the calls of writeYourContractAsync its handlers *)
(* are awaiting, `inflight`.  A handler runs up to its `await` in one      *)
(* step and resumes in a later one; the transaction it submitted is mined  *)
(* in between.  Only the specifications of the page change these two.      *)
(***************************************************************************)
EXTENDS Integers, Sequences, FiniteSets, TLC

\* ---- program constants -------------------------------------------------
GRID_SIZE == 16
MAX_SUPPLY == 256
COLOR_STEP == 17

\* ---- bounds of the model -----------------------------------------------
NumAddrs == 2      \* externally owned accounts 1..NumAddrs
MaxId == 1         \* token ids 0..MaxId are used as inputs, next to 256, 257
MaxBalance == 1    \* cap on the ether held by the contract
MaxStep == 16      \* steps 0..MaxStep are inputs of updateColorBySteps
MaxEvents == 4     \* cap on the length of the event log kept by SpecLog
MaxInflight == 3   \* cap on the calls of writeYourContractAsync being awaited

ZERO == 0                          \* address(0)
Addrs == 1..NumAddrs               \* possible msg.sender values
TokenIds == (0..MaxId) \cup {MAX_SUPPLY, MAX_SUPPLY + 1}
ValidIds == {i \in TokenIds : i >= 1 /\ i <= MAX_SUPPLY}

\* inputs of updateColor (uint8 triples) and updateColorBySteps
RGBInputs == {<<1, 2, 3>>}
StepInputs == {<<15, 15, 15>>, <<16, 0, 0>>}

\* inputs of updateColorBySteps when the quantization is explored: every
\* step 0..MaxStep (and 255) in each channel, next to corner values in the
\* other two channels
StepValues == (0..MaxStep) \cup {255}
StepCorners == {15, 16}
StepSpace ==
    {<<a, b, c>> : a \in StepValues, b \in StepCorners, c \in StepCorners}
    \cup {<<a, b, c>> : a \in StepCorners, b \in StepValues, c \in StepCorners}
    \cup {<<a, b, c>> : a \in StepCorners, b \in StepCorners, c \in StepValues}
    \cup {<<0, 0, 0>>, <<16, 0, 0>>, <<1, 2, 3>>, <<14, 0, 7>>}

\* inputs of updateColor when the rendering is explored: every hexadecimal
\* digit occurs in both places of a channel
ColorSpace == {<<v, 255 - v, (v * 7) % 256>> : v \in {3 * k : k \in 0..85}}

\* inputs of the coordinate mapper
CoordIdInputs == 0..(MAX_SUPPLY + 1)
CoordInputs == 0..GRID_SIZE

\* ---- results of a transaction ------------------------------------------
OK == "ok"
InvalidId == "Invalid token ID"
AlreadyClaimed == "Token already minted"
NotOwner == "Not the owner of this token"
NotFound == "Token does not exist"
InvalidStep == "Steps must be 0-15"
InvalidCoord == "Invalid coordinates"
NoFunds == "No funds to withdraw"
TransferFailed == "Failed to send Ether"
NotAdmin == "OwnableUnauthorizedAccount"

VARIABLES
    totalSupply,        \* uint256 public totalSupply
    mintedTokens,       \* mapping(uint256 => bool)
    tokenColors,        \* mapping(uint256 => RGBColor)
    owners,             \* ERC721 _owners: tokenId -> address
    tokenApprovals,     \* ERC721 _tokenApprovals: tokenId -> address
    operatorApprovals,  \* ERC721 _operatorApprovals: owner -> operator -> bool
    contractOwner,      \* Ownable _owner
    balance,            \* address(this).balance
    claimant,           \* tokenId -> minter of its GridBoxMinted event
    last,               \* receipt of the latest transaction
    events,             \* event log kept by SpecLog; elsewhere see last.logs
    page,               \* useState values of Home (page.tsx lines 47-54)
    inflight            \* writeYourContractAsync calls being awaited

vars == <<totalSupply, mintedTokens, tokenColors, owners, tokenApprovals,
          operatorApprovals, contractOwner, balance, claimant, last, events,
          page, inflight>>

cellVars == <<totalSupply, mintedTokens, tokenColors, owners>>
ercVars == <<tokenApprovals, operatorApprovals>>
adminVars == <<contractOwner, balance>>
stateVars == <<cellVars, ercVars, adminVars, claimant>>
clientVars == <<page, inflight>>

\* JavaScript's null and undefined; token ids and addresses are not 0
Null == 0

RGBColor(r, g, b) == [r |-> r, g |-> g, b |-> b]

\* `logs` holds the events YourContract declares (GridBoxMinted,
\* ColorUpdated); a reverted transaction emits nothing.
Receipt(fn, sender, tokenId, args, err, logs) ==
    [fn |-> fn, sender |-> sender, tokenId |-> tokenId, args |-> args,
     err |-> err, logs |-> IF err = OK THEN logs ELSE <<>>, ret |-> <<>>]

\* Receipt of a call of a view or pure function: its return values.
ViewReceipt(fn, sender, args, res) ==
    [fn |-> fn, sender |-> sender, tokenId |-> 0, args |-> args,
     err |-> res.err, logs |-> <<>>, ret |-> res.ret]

Return(ret) == [err |-> OK, ret |-> ret]
Revert(reason) == [err |-> reason, ret |-> <<>>]

\* State after the constructor: nothing minted, `admin` owns the contract.
Init ==
    /\ totalSupply = 0
    /\ mintedTokens = [i \in TokenIds |-> FALSE]
    /\ tokenColors = [i \in TokenIds |-> RGBColor(0, 0, 0)]
    /\ owners = [i \in TokenIds |-> ZERO]
    /\ tokenApprovals = [i \in TokenIds |-> ZERO]
    /\ operatorApprovals = [o \in Addrs |-> [p \in Addrs |-> FALSE]]
    /\ contractOwner = 1
    /\ balance = 0
    /\ claimant = [i \in TokenIds |-> ZERO]
    /\ last = Receipt("constructor", contractOwner, 0, <<>>, OK, <<>>)
    /\ events = <<>>
    /\ page = [connectedAddress |-> ZERO,
               mintedTokens |-> {},
               tokenColors |-> <<>>,
               isMinting |-> Null,
               selectedToken |-> Null,
               colorSteps |-> [r |-> 15, g |-> 15, b |-> 15],
               isUpdatingColor |-> FALSE]
    /\ inflight = <<>>

\* ---- coordinate mapper (pure functions) --------------------------------
getCoordinates(tokenId) ==
    IF ~(tokenId >= 1 /\ tokenId <= MAX_SUPPLY) THEN Revert(InvalidId)
    ELSE Return(<<(tokenId - 1) % GRID_SIZE, (tokenId - 1) \div GRID_SIZE>>)

\* mutant: x and y are exchanged
getTokenId_Swapped(x, y) ==
    IF ~(x < GRID_SIZE /\ y < GRID_SIZE) THEN Revert(InvalidCoord)
    ELSE Return(<<x * GRID_SIZE + y + 1>>)

getTokenId(x, y) ==
    IF ~(x < GRID_SIZE /\ y < GRID_SIZE) THEN Revert(InvalidCoord)
    ELSE Return(<<y * GRID_SIZE + x + 1>>)

getCoordinatesCall(sender, tokenId) ==
    /\ last' = ViewReceipt("getCoordinates", sender, <<tokenId>>,
                           getCoordinates(tokenId))
    /\ UNCHANGED stateVars

getTokenIdCall(sender, x, y) ==
    /\ last' = ViewReceipt("getTokenId", sender, <<x, y>>, getTokenId(x, y))
    /\ UNCHANGED stateVars

\* ---- ERC721 helpers ----------------------------------------------------
\* _ownerOf(tokenId)
ownerOf_(tokenId) == owners[tokenId]

isApprovedForAll(owner, operator) ==
    /\ owner \in Addrs
    /\ operator \in Addrs
    /\ operatorApprovals[owner][operator]

isAuthorized(owner, spender, tokenId) ==
    /\ spender # ZERO
    /\ \/ owner = spender
       \/ isApprovedForAll(owner, spender)
       \/ tokenApprovals[tokenId] = spender

\* ---- mintGridBox -------------------------------------------------------
\* mutant: the lower bound of the id range is missing
mintGridBoxErr_ZeroAllowed(tokenId) ==
    IF ~(tokenId <= MAX_SUPPLY) THEN InvalidId
    ELSE IF mintedTokens[tokenId] THEN AlreadyClaimed
    ELSE IF ownerOf_(tokenId) # ZERO THEN "ERC721InvalidSender"
    ELSE OK

\* mutant: the already-minted check is missing
mintGridBoxErr_NoDupCheck(tokenId) ==
    IF ~(tokenId >= 1 /\ tokenId <= MAX_SUPPLY) THEN InvalidId
    ELSE IF ownerOf_(tokenId) # ZERO THEN "ERC721InvalidSender"
    ELSE OK

\* mutant: the range check has no upper end
mintGridBoxErr_UpperOpen(tokenId) ==
    IF ~(tokenId >= 1) THEN InvalidId
    ELSE IF mintedTokens[tokenId] THEN AlreadyClaimed
    ELSE IF ownerOf_(tokenId) # ZERO THEN "ERC721InvalidSender"
    ELSE OK

mintGridBoxErr(tokenId) ==
    IF ~(tokenId >= 1 /\ tokenId <= MAX_SUPPLY) THEN InvalidId
    ELSE IF mintedTokens[tokenId] THEN AlreadyClaimed
    ELSE IF ownerOf_(tokenId) # ZERO THEN "ERC721InvalidSender"
    ELSE OK

GridBoxMinted(minter, tokenId, x, y) ==
    [name |-> "GridBoxMinted", who |-> minter, tokenId |-> tokenId,
     data |-> <<x, y>>]

ColorUpdated(owner, tokenId, r, g, b) ==
    [name |-> "ColorUpdated", who |-> owner, tokenId |-> tokenId,
     data |-> <<r, g, b>>]

\* mutant: the color is not initialized to white
mintGridBox_NoColorInit(sender, tokenId) ==
    LET err == mintGridBoxErr(tokenId)
        x == (tokenId - 1) % GRID_SIZE
        y == (tokenId - 1) \div GRID_SIZE
    IN
    /\ last' = Receipt("mintGridBox", sender, tokenId, <<>>, err,
                       <<GridBoxMinted(sender, tokenId, x, y)>>)
    /\ IF err = OK
       THEN /\ mintedTokens' = [mintedTokens EXCEPT ![tokenId] = TRUE]
            /\ totalSupply' = totalSupply + 1
            /\ owners' = [owners EXCEPT ![tokenId] = sender]
            /\ claimant' = [claimant EXCEPT ![tokenId] = sender]
            /\ UNCHANGED <<tokenColors, ercVars, adminVars>>
       ELSE UNCHANGED stateVars

\* mutant: totalSupply++ is missing
mintGridBox_NoCount(sender, tokenId) ==
    LET err == mintGridBoxErr(tokenId)
        x == (tokenId - 1) % GRID_SIZE
        y == (tokenId - 1) \div GRID_SIZE
    IN
    /\ last' = Receipt("mintGridBox", sender, tokenId, <<>>, err,
                       <<GridBoxMinted(sender, tokenId, x, y)>>)
    /\ IF err = OK
       THEN /\ mintedTokens' = [mintedTokens EXCEPT ![tokenId] = TRUE]
            /\ owners' = [owners EXCEPT ![tokenId] = sender]
            /\ tokenColors' = [tokenColors EXCEPT
                                 ![tokenId] = RGBColor(255, 255, 255)]
            /\ claimant' = [claimant EXCEPT ![tokenId] = sender]
            /\ UNCHANGED <<totalSupply, ercVars, adminVars>>
       ELSE UNCHANGED stateVars

mintGridBox(sender, tokenId) ==
    LET err == mintGridBoxErr(tokenId)
        x == (tokenId - 1) % GRID_SIZE
        y == (tokenId - 1) \div GRID_SIZE
    IN
    /\ last' = Receipt("mintGridBox", sender, tokenId, <<>>, err,
                       <<GridBoxMinted(sender, tokenId, x, y)>>)
    /\ IF err = OK
       THEN /\ mintedTokens' = [mintedTokens EXCEPT ![tokenId] = TRUE]
            /\ totalSupply' = totalSupply + 1
            /\ owners' = [owners EXCEPT ![tokenId] = sender]
            /\ tokenColors' = [tokenColors EXCEPT
                                 ![tokenId] = RGBColor(255, 255, 255)]
            /\ claimant' = [claimant EXCEPT ![tokenId] = sender]
            /\ UNCHANGED <<ercVars, adminVars>>
       ELSE UNCHANGED stateVars

\* ---- updateColor -------------------------------------------------------
\* mutant: the claimant, not the current owner, is let through
updateColorErr_Claimant(sender, tokenId) ==
    IF claimant[tokenId] # sender THEN NotOwner
    ELSE IF ~mintedTokens[tokenId] THEN NotFound
    ELSE OK

\* mutant: ERC721 approval is accepted in place of ownership
updateColorErr_Authorized(sender, tokenId) ==
    IF ~isAuthorized(ownerOf_(tokenId), sender, tokenId) THEN NotOwner
    ELSE IF ~mintedTokens[tokenId] THEN NotFound
    ELSE OK

\* mutant: a token without an owner may be colored by anyone
updateColorErr_UnownedWritable(sender, tokenId) ==
    IF ownerOf_(tokenId) \notin {sender, ZERO} THEN NotOwner
    ELSE OK

updateColorErr(sender, tokenId) ==
    IF ownerOf_(tokenId) # sender THEN NotOwner
    ELSE IF ~mintedTokens[tokenId] THEN NotFound
    ELSE OK

\* mutant: the color is stored in every token the sender owns
updateColor_PaintsAll(sender, tokenId, r, g, b) ==
    LET err == updateColorErr(sender, tokenId) IN
    /\ last' = Receipt("updateColor", sender, tokenId, <<r, g, b>>, err,
                       <<ColorUpdated(sender, tokenId, r, g, b)>>)
    /\ IF err = OK
       THEN /\ tokenColors' = [j \in TokenIds |->
                                  IF ownerOf_(j) = sender THEN RGBColor(r, g, b)
                                  ELSE tokenColors[j]]
            /\ UNCHANGED <<totalSupply, mintedTokens, owners, ercVars,
                           adminVars, claimant>>
       ELSE UNCHANGED stateVars

updateColor(sender, tokenId, r, g, b) ==
    LET err == updateColorErr(sender, tokenId) IN
    /\ last' = Receipt("updateColor", sender, tokenId, <<r, g, b>>, err,
                       <<ColorUpdated(sender, tokenId, r, g, b)>>)
    /\ IF err = OK
       THEN /\ tokenColors' = [tokenColors EXCEPT ![tokenId] = RGBColor(r, g, b)]
            /\ UNCHANGED <<totalSupply, mintedTokens, owners, ercVars,
                           adminVars, claimant>>
       ELSE UNCHANGED stateVars

\* ---- getTokenColor (view) -----------------------------------------------
getTokenColor(tokenId) ==
    IF ~mintedTokens[tokenId] THEN Revert(NotFound)
    ELSE Return(<<tokenColors[tokenId].r, tokenColors[tokenId].g,
                  tokenColors[tokenId].b>>)

\* ---- updateColorBySteps ------------------------------------------------
\* mutant: a step of 16 in place of COLOR_STEP
StepToChannel_Step16(step) ==
    IF step = 15 THEN 255 ELSE (step * 16) % 256

\* step == 15 ? 255 : uint8(step * COLOR_STEP)
StepToChannel(step) ==
    IF step = 15 THEN 255 ELSE (step * COLOR_STEP) % 256

updateColorByStepsErr(sender, tokenId, rStep, gStep, bStep) ==
    IF ownerOf_(tokenId) # sender THEN NotOwner
    ELSE IF ~mintedTokens[tokenId] THEN NotFound
    ELSE IF ~(rStep <= 15 /\ gStep <= 15 /\ bStep <= 15) THEN InvalidStep
    ELSE OK

\* mutant: the event carries the steps, not the channel values stored
updateColorBySteps_EmitSteps(sender, tokenId, rStep, gStep, bStep) ==
    LET err == updateColorByStepsErr(sender, tokenId, rStep, gStep, bStep)
        r == StepToChannel(rStep)
        g == StepToChannel(gStep)
        b == StepToChannel(bStep)
    IN
    /\ last' = Receipt("updateColorBySteps", sender, tokenId,
                       <<rStep, gStep, bStep>>, err,
                       <<ColorUpdated(sender, tokenId, rStep, gStep, bStep)>>)
    /\ IF err = OK
       THEN /\ tokenColors' = [tokenColors EXCEPT ![tokenId] = RGBColor(r, g, b)]
            /\ UNCHANGED <<totalSupply, mintedTokens, owners, ercVars,
                           adminVars, claimant>>
       ELSE UNCHANGED stateVars

updateColorBySteps(sender, tokenId, rStep, gStep, bStep) ==
    LET err == updateColorByStepsErr(sender, tokenId, rStep, gStep, bStep)
        r == StepToChannel(rStep)
        g == StepToChannel(gStep)
        b == StepToChannel(bStep)
    IN
    /\ last' = Receipt("updateColorBySteps", sender, tokenId,
                       <<rStep, gStep, bStep>>, err,
                       <<ColorUpdated(sender, tokenId, r, g, b)>>)
    /\ IF err = OK
       THEN /\ tokenColors' = [tokenColors EXCEPT ![tokenId] = RGBColor(r, g, b)]
            /\ UNCHANGED <<totalSupply, mintedTokens, owners, ercVars,
                           adminVars, claimant>>
       ELSE UNCHANGED stateVars

\* ---- getTokenColorHex, tokenURI (views) ---------------------------------
\* Strings are sequences of character codes.
\* mutant: the second digit is a lower-case letter
toHexString_MixedCase(value) ==
    <<48 + (value \div 16) + (IF value \div 16 > 9 THEN 7 ELSE 0),
      48 + (value % 16) + (IF value % 16 > 9 THEN 39 ELSE 0)>>

toHexString(value) ==
    <<(48 + (value \div 16) + (IF value \div 16 > 9 THEN 7 ELSE 0)) % 256,
      (48 + (value % 16) + (IF value % 16 > 9 THEN 7 ELSE 0)) % 256>>

getTokenColorHex(tokenId) ==
    IF ~mintedTokens[tokenId] THEN Revert(NotFound)
    ELSE Return(<<35>> \o toHexString(tokenColors[tokenId].r)
                      \o toHexString(tokenColors[tokenId].g)
                      \o toHexString(tokenColors[tokenId].b))

\* Strings.toString(uint256): the decimal digits
RECURSIVE toString(_)
toString(value) ==
    IF value < 10 THEN <<48 + value>>
    ELSE Append(toString(value \div 10), 48 + (value % 10))

\* mutant: the coordinates are computed before the existence check
tokenURI_CoordsFirst(tokenId) ==
    IF getCoordinates(tokenId).err # OK THEN getCoordinates(tokenId)
    ELSE IF ownerOf_(tokenId) = ZERO THEN Revert(NotFound)
    ELSE IF getTokenColorHex(tokenId).err # OK THEN getTokenColorHex(tokenId)
    ELSE LET xy == getCoordinates(tokenId).ret
             color == tokenColors[tokenId]
         IN Return([name |-> toString(tokenId),
                    x |-> toString(xy[1]),
                    y |-> toString(xy[2]),
                    hex |-> getTokenColorHex(tokenId).ret,
                    r |-> toString(color.r),
                    g |-> toString(color.g),
                    b |-> toString(color.b)])

\* The values tokenURI writes into its JSON text, each as the text written.
tokenURI(tokenId) ==
    IF ownerOf_(tokenId) = ZERO THEN Revert(NotFound)
    ELSE IF getCoordinates(tokenId).err # OK THEN getCoordinates(tokenId)
    ELSE IF getTokenColorHex(tokenId).err # OK THEN getTokenColorHex(tokenId)
    ELSE LET xy == getCoordinates(tokenId).ret
             color == tokenColors[tokenId]
         IN Return([name |-> toString(tokenId),
                    x |-> toString(xy[1]),
                    y |-> toString(xy[2]),
                    hex |-> getTokenColorHex(tokenId).ret,
                    r |-> toString(color.r),
                    g |-> toString(color.g),
                    b |-> toString(color.b)])

tokenURICall(sender, tokenId) ==
    /\ last' = ViewReceipt("tokenURI", sender, <<tokenId>>, tokenURI(tokenId))
    /\ UNCHANGED stateVars

\* ---- getMintedTokens (view) ---------------------------------------------
\* The loop `for (i = 1; i <= MAX_SUPPLY; i++)` over the ids in `ids`, in
\* ascending order; ids that no transaction names are never minted and are
\* passed over.  `result` has totalSupply entries, and a write past its end
\* is a panic.
RECURSIVE getMintedTokensLoop(_, _, _)
getMintedTokensLoop(ids, result, counter) ==
    IF ids = {} THEN Return(result)
    ELSE LET i == CHOOSE j \in ids : \A k \in ids : j <= k IN
         IF mintedTokens[i]
         THEN IF counter >= Len(result) THEN Revert("Panic(0x32)")
              ELSE getMintedTokensLoop(ids \ {i},
                       [result EXCEPT ![counter + 1] = i], counter + 1)
         ELSE getMintedTokensLoop(ids \ {i}, result, counter)

\* mutant: the loop stops before MAX_SUPPLY
getMintedTokens_SkipLast ==
    getMintedTokensLoop({i \in TokenIds : i >= 1 /\ i < MAX_SUPPLY},
                        [k \in 1..totalSupply |-> 0], 0)

getMintedTokens ==
    getMintedTokensLoop({i \in TokenIds : i >= 1 /\ i <= MAX_SUPPLY},
                        [k \in 1..totalSupply |-> 0], 0)

getMintedTokensCall(sender) ==
    /\ last' = ViewReceipt("getMintedTokens", sender, <<>>, getMintedTokens)
    /\ UNCHANGED stateVars

\* ---- inherited ERC721 operations (OpenZeppelin 5.x, the version whose ----
\* ---- Ownable takes the initial owner as constructor argument) -----------
\* mutant: a transfer to address(0) is accepted
transferFromErr_NoReceiverCheck(sender, from, to, tokenId) ==
    IF ~isAuthorized(ownerOf_(tokenId), sender, tokenId)
    THEN IF ownerOf_(tokenId) = ZERO THEN "ERC721NonexistentToken"
         ELSE "ERC721InsufficientApproval"
    ELSE IF ownerOf_(tokenId) # from THEN "ERC721IncorrectOwner"
    ELSE OK

transferFromErr(sender, from, to, tokenId) ==
    IF to = ZERO THEN "ERC721InvalidReceiver"
    ELSE IF ~isAuthorized(ownerOf_(tokenId), sender, tokenId)
         THEN IF ownerOf_(tokenId) = ZERO THEN "ERC721NonexistentToken"
              ELSE "ERC721InsufficientApproval"
    ELSE IF ownerOf_(tokenId) # from THEN "ERC721IncorrectOwner"
    ELSE OK

\* mutant: a transferred cell starts over with the default color
transferFrom_ResetsColor(sender, from, to, tokenId) ==
    LET err == transferFromErr(sender, from, to, tokenId) IN
    /\ last' = Receipt("transferFrom", sender, tokenId, <<>>, err, <<>>)
    /\ IF err = OK
       THEN /\ owners' = [owners EXCEPT ![tokenId] = to]
            /\ tokenApprovals' = [tokenApprovals EXCEPT ![tokenId] = ZERO]
            /\ tokenColors' = [tokenColors EXCEPT
                                  ![tokenId] = RGBColor(255, 255, 255)]
            /\ UNCHANGED <<totalSupply, mintedTokens, operatorApprovals,
                           adminVars, claimant>>
       ELSE UNCHANGED stateVars

transferFrom(sender, from, to, tokenId) ==
    LET err == transferFromErr(sender, from, to, tokenId) IN
    /\ last' = Receipt("transferFrom", sender, tokenId, <<>>, err, <<>>)
    /\ IF err = OK
       THEN /\ owners' = [owners EXCEPT ![tokenId] = to]
            /\ tokenApprovals' = [tokenApprovals EXCEPT ![tokenId] = ZERO]
            /\ UNCHANGED <<totalSupply, mintedTokens, tokenColors,
                           operatorApprovals, adminVars, claimant>>
       ELSE UNCHANGED stateVars

approveErr(sender, tokenId) ==
    IF ownerOf_(tokenId) = ZERO THEN "ERC721NonexistentToken"
    ELSE IF ownerOf_(tokenId) # sender /\ ~isApprovedForAll(ownerOf_(tokenId), sender)
         THEN "ERC721InvalidApprover"
    ELSE OK

approve(sender, to, tokenId) ==
    LET err == approveErr(sender, tokenId) IN
    /\ last' = Receipt("approve", sender, tokenId, <<>>, err, <<>>)
    /\ IF err = OK
       THEN /\ tokenApprovals' = [tokenApprovals EXCEPT ![tokenId] = to]
            /\ UNCHANGED <<cellVars, operatorApprovals, adminVars, claimant>>
       ELSE UNCHANGED stateVars

setApprovalForAll(sender, operator, approved) ==
    LET err == IF operator = ZERO THEN "ERC721InvalidOperator" ELSE OK IN
    /\ last' = Receipt("setApprovalForAll", sender, 0, <<>>, err, <<>>)
    /\ IF err = OK
       THEN /\ operatorApprovals' =
                   [operatorApprovals EXCEPT ![sender][operator] = approved]
            /\ UNCHANGED <<cellVars, tokenApprovals, adminVars, claimant>>
       ELSE UNCHANGED stateVars

\* ---- treasury ----------------------------------------------------------
\* receive() external payable {}
receive(sender, value) ==
    /\ balance + value <= MaxBalance
    /\ last' = Receipt("receive", sender, 0, <<>>, OK, <<>>)
    /\ balance' = balance + value
    /\ UNCHANGED <<cellVars, ercVars, contractOwner, claimant>>

\* mutant: the result of the call is not checked
withdrawErr_IgnoreFailure(sender, success) ==
    IF contractOwner # sender THEN NotAdmin
    ELSE IF ~(balance > 0) THEN NoFunds
    ELSE OK

\* mutant: onlyOwner is missing
withdrawErr_AnyCaller(sender, success) ==
    IF ~(balance > 0) THEN NoFunds
    ELSE IF ~success THEN TransferFailed
    ELSE OK

\* `success` is the outcome of owner().call{value: balance}("").
withdrawErr(sender, success) ==
    IF contractOwner # sender THEN NotAdmin
    ELSE IF ~(balance > 0) THEN NoFunds
    ELSE IF ~success THEN TransferFailed
    ELSE OK

\* The receipt names, in `args`, whether owner() accepts the ether and, in
\* `ret`, the transfer made: recipient and amount.
withdraw(sender, success) ==
    LET err == withdrawErr(sender, success) IN
    /\ last' = [Receipt("withdraw", sender, 0, <<success>>, err, <<>>)
                   EXCEPT !.ret = IF err = OK THEN <<contractOwner, balance>>
                                  ELSE <<>>]
    /\ IF err = OK
       THEN /\ balance' = 0
            /\ UNCHANGED <<cellVars, ercVars, contractOwner, claimant>>
       ELSE UNCHANGED stateVars

\* ---- inherited Ownable operations --------------------------------------
transferOwnership(sender, newOwner) ==
    LET err == IF contractOwner # sender THEN NotAdmin
               ELSE IF newOwner = ZERO THEN "OwnableInvalidOwner"
               ELSE OK
    IN
    /\ last' = Receipt("transferOwnership", sender, 0, <<newOwner>>, err, <<>>)
    /\ IF err = OK
       THEN /\ contractOwner' = newOwner
            /\ UNCHANGED <<cellVars, ercVars, balance, claimant>>
       ELSE UNCHANGED stateVars

renounceOwnership(sender) ==
    LET err == IF contractOwner # sender THEN NotAdmin ELSE OK IN
    /\ last' = Receipt("renounceOwnership", sender, 0, <<>>, err, <<>>)
    /\ IF err = OK
       THEN /\ contractOwner' = ZERO
            /\ UNCHANGED <<cellVars, ercVars, balance, claimant>>
       ELSE UNCHANGED stateVars

\* ---- the page: packages/nextjs/app/page.tsx ----------------------------
\* the boxes renderGrid draws: getTokenId(row, col) for row, col in 0..15
GridIds == ValidIds

\* a step of the page alone: no transaction is mined
PageOnly == UNCHANGED <<stateVars, last, events>>

\* new Map([...prev, [k, v]])
MapSet(m, k, v) == [j \in DOMAIN m \cup {k} |-> IF j = k THEN v ELSE m[j]]

\* Math.round(n / d) for n >= 0, d > 0: the nearest integer, halves upwards
Math_round(n, d) == (2 * n + d) \div (2 * d)

\* useAccount(): the wallet connects, switches account or disconnects
useAccount(address) ==
    /\ address # page.connectedAddress
    /\ page' = [page EXCEPT !.connectedAddress = address]
    /\ UNCHANGED inflight
    /\ PageOnly

\* The getMintedTokens read hook delivers the current list and the effect
\* of lines 78-94 runs on it.
useEffect_allMintedTokens ==
    LET allMintedTokens == getMintedTokens
        tokenSet == {allMintedTokens.ret[i] : i \in 1..Len(allMintedTokens.ret)}
    IN
    /\ allMintedTokens.err = OK
    /\ Len(allMintedTokens.ret) > 0
    /\ page' = [page EXCEPT
                  !.mintedTokens = tokenSet,
                  !.tokenColors =
                      [j \in DOMAIN page.tokenColors \cup tokenSet |->
                          IF j \in DOMAIN page.tokenColors
                          THEN page.tokenColors[j]
                          ELSE RGBColor(255, 255, 255)]]
    /\ UNCHANGED inflight
    /\ PageOnly

\* TokenColorReader of a locally minted token: getTokenColor delivers and
\* handleColorRead stores the color.
handleColorRead(tokenId) ==
    LET colorData == getTokenColor(tokenId) IN
    /\ tokenId \in page.mintedTokens
    /\ colorData.err = OK
    /\ Len(colorData.ret) >= 3
    /\ page' = [page EXCEPT !.tokenColors =
                   MapSet(@, tokenId, RGBColor(colorData.ret[1],
                                               colorData.ret[2],
                                               colorData.ret[3]))]
    /\ UNCHANGED inflight
    /\ PageOnly

isOwnedByUser(tokenId) ==
    tokenId \in page.mintedTokens /\ page.connectedAddress # ZERO

\* A call of writeYourContractAsync that is awaited: the function, the
\* wallet account, the arguments, and whether the promise is settled.
Request(fn, tokenId, steps) ==
    [fn |-> fn, sender |-> page.connectedAddress, tokenId |-> tokenId,
     steps |-> steps, status |-> "pending"]

\* handleMintBox up to its await
handleMintBox(tokenId) ==
    IF page.connectedAddress = ZERO THEN UNCHANGED clientVars
    ELSE IF tokenId \in page.mintedTokens THEN UNCHANGED clientVars
    ELSE /\ Len(inflight) < MaxInflight
         /\ page' = [page EXCEPT !.isMinting = tokenId]
         /\ inflight' = Append(inflight,
                               Request("mintGridBox", tokenId, <<>>))

\* mutant: the channel is divided by 16, the number of steps
onClick_Div16(tokenId) ==
    LET isMinted == tokenId \in page.mintedTokens
        isCurrentlyMinting == page.isMinting = tokenId
        isOwned == isOwnedByUser(tokenId)
    IN
    /\ IF ~isMinted /\ ~isCurrentlyMinting THEN handleMintBox(tokenId)
       ELSE IF isMinted /\ isOwned
       THEN /\ page' =
                 IF tokenId \in DOMAIN page.tokenColors
                 THEN LET tokenColor == page.tokenColors[tokenId] IN
                      [page EXCEPT
                          !.selectedToken = tokenId,
                          !.colorSteps = [r |-> Math_round(tokenColor.r, 16),
                                          g |-> Math_round(tokenColor.g, 16),
                                          b |-> Math_round(tokenColor.b, 16)]]
                 ELSE [page EXCEPT !.selectedToken = tokenId]
            /\ UNCHANGED inflight
       ELSE UNCHANGED clientVars
    /\ PageOnly

\* onClick of a box (lines 226-240)
onClick(tokenId) ==
    LET isMinted == tokenId \in page.mintedTokens
        isCurrentlyMinting == page.isMinting = tokenId
        isOwned == isOwnedByUser(tokenId)
    IN
    /\ IF ~isMinted /\ ~isCurrentlyMinting THEN handleMintBox(tokenId)
       ELSE IF isMinted /\ isOwned
       THEN /\ page' =
                 IF tokenId \in DOMAIN page.tokenColors
                 THEN LET tokenColor == page.tokenColors[tokenId] IN
                      [page EXCEPT
                          !.selectedToken = tokenId,
                          !.colorSteps = [r |-> Math_round(tokenColor.r, 17),
                                          g |-> Math_round(tokenColor.g, 17),
                                          b |-> Math_round(tokenColor.b, 17)]]
                 ELSE [page EXCEPT !.selectedToken = tokenId]
            /\ UNCHANGED inflight
       ELSE UNCHANGED clientVars
    /\ PageOnly

\* The transaction of an awaited call is mined: the contract runs the
\* function for the wallet account, and the promise is fulfilled when the
\* transaction succeeded and rejected when it reverted.
writeYourContractAsync_mined(k) ==
    LET req == inflight[k] IN
    /\ req.status = "pending"
    /\ IF req.fn = "mintGridBox"
       THEN mintGridBox(req.sender, req.tokenId)
       ELSE updateColorBySteps(req.sender, req.tokenId,
                               req.steps.r, req.steps.g, req.steps.b)
    /\ inflight' = [inflight EXCEPT
                      ![k].status = IF last'.err = OK THEN "fulfilled"
                                    ELSE "rejected"]
    /\ UNCHANGED <<page, events>>

\* The wallet refuses to sign: the promise is rejected and no transaction
\* is sent.
writeYourContractAsync_refused(k) ==
    /\ inflight[k].status = "pending"
    /\ inflight' = [inflight EXCEPT ![k].status = "rejected"]
    /\ UNCHANGED page
    /\ PageOnly

\* the awaited calls but the k-th
Settle(k) ==
    SubSeq(inflight, 1, k - 1) \o SubSeq(inflight, k + 1, Len(inflight))

\* mutant: the local update sits in the finally block
handleMintBox_settled_InFinally(k) ==
    LET req == inflight[k] IN
    /\ req.fn = "mintGridBox"
    /\ req.status # "pending"
    /\ page' = [page EXCEPT
                  !.mintedTokens = @ \cup {req.tokenId},
                  !.tokenColors =
                      MapSet(@, req.tokenId, RGBColor(255, 255, 255)),
                  !.isMinting = Null]
    /\ inflight' = Settle(k)
    /\ PageOnly

\* handleMintBox from its await on: the success branch, catch, finally
handleMintBox_settled(k) ==
    LET req == inflight[k] IN
    /\ req.fn = "mintGridBox"
    /\ req.status # "pending"
    /\ page' = IF req.status = "fulfilled"
               THEN [page EXCEPT
                       !.mintedTokens = @ \cup {req.tokenId},
                       !.tokenColors =
                           MapSet(@, req.tokenId, RGBColor(255, 255, 255)),
                       !.isMinting = Null]
               ELSE [page EXCEPT !.isMinting = Null]
    /\ inflight' = Settle(k)
    /\ PageOnly

\* a slider of the color picker (lines 297-329): a range input 0..15
setColorSteps(channel, value) ==
    /\ page.selectedToken # Null
    /\ page' = [page EXCEPT !.colorSteps[channel] = value]
    /\ UNCHANGED inflight
    /\ PageOnly

\* the Cancel button of the color picker
setSelectedToken_null ==
    /\ page.selectedToken # Null
    /\ page' = [page EXCEPT !.selectedToken = Null]
    /\ UNCHANGED inflight
    /\ PageOnly

\* mutant: sixteen to a step
newColor_Times16(colorSteps) ==
    [r |-> IF colorSteps.r = 15 THEN 255 ELSE colorSteps.r * 16,
     g |-> IF colorSteps.g = 15 THEN 255 ELSE colorSteps.g * 16,
     b |-> IF colorSteps.b = 15 THEN 255 ELSE colorSteps.b * 16]

\* lines 154-158: the color the page computes from the steps
newColor(colorSteps) ==
    [r |-> IF colorSteps.r = 15 THEN 255 ELSE colorSteps.r * 17,
     g |-> IF colorSteps.g = 15 THEN 255 ELSE colorSteps.g * 17,
     b |-> IF colorSteps.b = 15 THEN 255 ELSE colorSteps.b * 17]

\* The Update Color button, enabled while isUpdatingColor is false:
\* handleUpdateColor up to its await.
handleUpdateColor ==
    /\ page.selectedToken # Null
    /\ ~page.isUpdatingColor
    /\ IF page.selectedToken = Null \/ page.connectedAddress = ZERO
       THEN UNCHANGED clientVars
       ELSE /\ Len(inflight) < MaxInflight
            /\ page' = [page EXCEPT !.isUpdatingColor = TRUE]
            /\ inflight' = Append(inflight,
                                  Request("updateColorBySteps",
                                          page.selectedToken, page.colorSteps))
    /\ PageOnly

\* handleUpdateColor from its await on; selectedToken and colorSteps are
\* the values of the render the handler was called in
handleUpdateColor_settled(k) ==
    LET req == inflight[k] IN
    /\ req.fn = "updateColorBySteps"
    /\ req.status # "pending"
    /\ page' = IF req.status = "fulfilled"
               THEN [page EXCEPT
                       !.tokenColors =
                           MapSet(@, req.tokenId, newColor(req.steps)),
                       !.isUpdatingColor = FALSE]
               ELSE [page EXCEPT !.isUpdatingColor = FALSE]
    /\ inflight' = Settle(k)
    /\ PageOnly

\* One transaction by one account.  Token ids outside 1..256 are inputs of
\* the contract's own functions; an account names another account (or
\* address(0)) as operator.
Next ==
    \/ \E s \in Addrs, id \in TokenIds : mintGridBox(s, id)
           /\ UNCHANGED <<events, clientVars>>
    \/ \E s \in Addrs, id \in TokenIds, c \in RGBInputs :
           updateColor(s, id, c[1], c[2], c[3])
           /\ UNCHANGED <<events, clientVars>>
    \/ \E s \in Addrs, id \in TokenIds, st \in StepInputs :
           updateColorBySteps(s, id, st[1], st[2], st[3])
           /\ UNCHANGED <<events, clientVars>>
    \/ \E s \in Addrs, from \in Addrs, to \in Addrs \cup {ZERO}, id \in ValidIds :
           transferFrom(s, from, to, id)
           /\ UNCHANGED <<events, clientVars>>
    \/ \E s \in Addrs, to \in Addrs \cup {ZERO}, id \in ValidIds : approve(s, to, id)
           /\ UNCHANGED <<events, clientVars>>
    \/ \E s \in Addrs : \E op \in (Addrs \cup {ZERO}) \ {s}, a \in BOOLEAN :
           setApprovalForAll(s, op, a)
           /\ UNCHANGED <<events, clientVars>>
    \/ \E s \in Addrs, v \in 1..MaxBalance : receive(s, v)
           /\ UNCHANGED <<events, clientVars>>
    \/ \E s \in Addrs, ok \in BOOLEAN : withdraw(s, ok)
           /\ UNCHANGED <<events, clientVars>>

Spec == Init /\ [][Next]_vars

\* The owner of one cell explores the step quantization.
NextSteps ==
    \/ mintGridBox(1, 1)
           /\ UNCHANGED <<events, clientVars>>
    \/ \E st \in StepSpace : updateColorBySteps(1, 1, st[1], st[2], st[3])
           /\ UNCHANGED <<events, clientVars>>

SpecSteps == Init /\ [][NextSteps]_vars

\* Calls of the two pure coordinate functions.
NextCoord ==
    \/ \E id \in CoordIdInputs : getCoordinatesCall(1, id)
           /\ UNCHANGED <<events, clientVars>>
    \/ \E x \in CoordInputs, y \in CoordInputs : getTokenIdCall(1, x, y)
           /\ UNCHANGED <<events, clientVars>>

SpecCoord == Init /\ [][NextCoord]_vars

\* Transactions interleaved with calls of the view functions.
NextView ==
    \/ Next
    \/ getMintedTokensCall(1)
           /\ UNCHANGED <<events, clientVars>>
    \/ \E id \in TokenIds : tokenURICall(1, id)
           /\ UNCHANGED <<events, clientVars>>

SpecView == Init /\ [][NextView]_vars

\* The treasury: ether comes in, the administrator changes, cells are
\* claimed and colored meanwhile.
NextTreasury ==
    \/ \E s \in Addrs, id \in ValidIds : mintGridBox(s, id)
           /\ UNCHANGED <<events, clientVars>>
    \/ \E s \in Addrs, id \in ValidIds, c \in RGBInputs :
           updateColor(s, id, c[1], c[2], c[3])
           /\ UNCHANGED <<events, clientVars>>
    \/ \E s \in Addrs, v \in 1..MaxBalance : receive(s, v)
           /\ UNCHANGED <<events, clientVars>>
    \/ \E s \in Addrs, ok \in BOOLEAN : withdraw(s, ok)
           /\ UNCHANGED <<events, clientVars>>
    \/ \E s \in Addrs, n \in Addrs \cup {ZERO} : transferOwnership(s, n)
           /\ UNCHANGED <<events, clientVars>>
    \/ \E s \in Addrs : renounceOwnership(s)
           /\ UNCHANGED <<events, clientVars>>

SpecTreasury == Init /\ [][NextTreasury]_vars

\* One account claims cells and colors them widely; the metadata is read.
NextRender ==
    \/ \E id \in ValidIds : mintGridBox(1, id)
           /\ UNCHANGED <<events, clientVars>>
    \/ \E c \in RGBInputs : updateColor(1, 1, c[1], c[2], c[3])
           /\ UNCHANGED <<events, clientVars>>
    \/ \E c \in ColorSpace : updateColor(1, MAX_SUPPLY, c[1], c[2], c[3])
           /\ UNCHANGED <<events, clientVars>>
    \/ \E id \in TokenIds : tokenURICall(1, id)
           /\ UNCHANGED <<events, clientVars>>

SpecRender == Init /\ [][NextRender]_vars

\* The log of the contract: every event a transaction emits is appended in
\* the order of the `emit` statements; the log stops growing at MaxEvents
\* events.
Logged ==
    /\ events' = events \o last'.logs
    /\ Len(events') <= MaxEvents
    /\ UNCHANGED clientVars

\* Mints, color updates and transfers with the event log kept.
NextLog ==
    \/ \E s \in Addrs, id \in TokenIds : mintGridBox(s, id) /\ Logged
    \/ \E s \in Addrs, id \in TokenIds, c \in RGBInputs :
           updateColor(s, id, c[1], c[2], c[3]) /\ Logged
    \/ \E s \in Addrs, id \in TokenIds, st \in StepInputs :
           updateColorBySteps(s, id, st[1], st[2], st[3]) /\ Logged
    \/ \E from \in Addrs, to \in Addrs, id \in ValidIds :
           transferFrom(from, from, to, id) /\ Logged

SpecLog == Init /\ [][NextLog]_vars

\* The page of one user claims boxes while another account sends its mints
\* to the contract directly.
NextMint ==
    \/ \E a \in {ZERO, 1} : useAccount(a)
    \/ useEffect_allMintedTokens
    \/ \E id \in GridIds : onClick(id)
    \/ \E k \in DOMAIN inflight : writeYourContractAsync_mined(k)
    \/ \E k \in DOMAIN inflight : writeYourContractAsync_refused(k)
    \/ \E k \in DOMAIN inflight : handleMintBox_settled(k)
    \/ \E id \in GridIds : mintGridBox(2, id)
           /\ UNCHANGED <<events, clientVars>>

SpecMint == Init /\ [][NextMint]_vars

\* positions the sliders are moved to
SliderInputs == {0, 8}

\* The page of one user colors box 1, which that user or another account
\* has claimed.
NextColor ==
    \/ useAccount(1)
    \/ useEffect_allMintedTokens
    \/ handleColorRead(1)
    \/ onClick(1)
    \/ \E ch \in {"r", "g", "b"}, v \in SliderInputs : setColorSteps(ch, v)
    \/ setSelectedToken_null
    \/ handleUpdateColor
    \/ \E k \in DOMAIN inflight : writeYourContractAsync_mined(k)
    \/ \E k \in DOMAIN inflight : writeYourContractAsync_refused(k)
    \/ \E k \in DOMAIN inflight : handleMintBox_settled(k)
    \/ \E k \in DOMAIN inflight : handleUpdateColor_settled(k)
    \/ mintGridBox(2, 1)
           /\ UNCHANGED <<events, clientVars>>

SpecColor == Init /\ [][NextColor]_vars

\* the positions of a slider: <input type="range" min="0" max="15">
SliderSteps == 0..15

\* colors of a box whose channels take, between them, every value 0..255
SliderColors ==
    {<<v, v + 86, (v + 172) % 256>> : v \in 0..85}

\* Account 1 has claimed box 1 and given it a color with updateColor; the
\* page, connected as account 1, has read the list of boxes and the color.
InitSlider ==
    \E c \in SliderColors :
        /\ totalSupply = 1
        /\ mintedTokens = [i \in TokenIds |-> i = 1]
        /\ tokenColors = [i \in TokenIds |->
                            IF i = 1 THEN RGBColor(c[1], c[2], c[3])
                            ELSE RGBColor(0, 0, 0)]
        /\ owners = [i \in TokenIds |-> IF i = 1 THEN 1 ELSE ZERO]
        /\ tokenApprovals = [i \in TokenIds |-> ZERO]
        /\ operatorApprovals = [o \in Addrs |-> [p \in Addrs |-> FALSE]]
        /\ contractOwner = 1
        /\ balance = 0
        /\ claimant = [i \in TokenIds |-> IF i = 1 THEN 1 ELSE ZERO]
        /\ last = Receipt("updateColor", 1, 1, c, OK,
                          <<ColorUpdated(1, 1, c[1], c[2], c[3])>>)
        /\ events = <<>>
        /\ page = [connectedAddress |-> 1,
                   mintedTokens |-> {1},
                   tokenColors |-> <<RGBColor(c[1], c[2], c[3])>>,
                   isMinting |-> Null,
                   selectedToken |-> Null,
                   colorSteps |-> [r |-> 15, g |-> 15, b |-> 15],
                   isUpdatingColor |-> FALSE]
        /\ inflight = <<>>

\* The user selects the box, moves the red slider and updates the color,
\* and waits for an update to complete before touching the page again.
NextSlider ==
    \/ inflight = <<>> /\ onClick(1)
    \/ \E v \in SliderSteps : inflight = <<>> /\ setColorSteps("r", v)
    \/ inflight = <<>> /\ setSelectedToken_null
    \/ handleUpdateColor
    \/ \E k \in DOMAIN inflight : writeYourContractAsync_mined(k)
    \/ \E k \in DOMAIN inflight : handleUpdateColor_settled(k)

SpecSlider == InitSlider /\ [][NextSlider]_vars

\* ---- properties ---------------------------------------------------------
UpdateFns == {"updateColor", "updateColorBySteps"}
ClaimedIds == {i \in TokenIds : i >= 1 /\ i <= MAX_SUPPLY /\ mintedTokens[i]}

\* C1: claim uniqueness.  A mintGridBox(id) call on an unclaimed valid id
\* succeeds and raises totalSupply by exactly 1; on a claimed id it fails with
\* "Token already minted" and totalSupply is unchanged; a claimed id stays
\* claimed, and nothing but a successful mint changes totalSupply.  So of all
\* the mintGridBox(id) calls of a run exactly the first succeeds.
C1_ClaimUniqueness ==
    [][\A id \in ValidIds :
          /\ mintedTokens[id] => mintedTokens'[id]
          /\ (last'.fn = "mintGridBox" /\ last'.tokenId = id) =>
                IF mintedTokens[id]
                THEN last'.err = AlreadyClaimed /\ totalSupply' = totalSupply
                ELSE /\ last'.err = OK
                     /\ totalSupply' = totalSupply + 1
                     /\ mintedTokens'[id]
          /\ totalSupply' # totalSupply =>
                last'.fn = "mintGridBox" /\ last'.err = OK]_vars

\* a second caller lost the race for an id somebody else claimed
C1_Witness ==
    /\ last.fn = "mintGridBox"
    /\ last.err = AlreadyClaimed
    /\ claimant[last.tokenId] # ZERO
    /\ claimant[last.tokenId] # last.sender
    /\ totalSupply = 1

\* C2: totalSupply equals the number of ids in 1..256 whose mintedTokens
\* flag is true.
C2_SupplyCountsClaimed ==
    totalSupply = Cardinality(ClaimedIds)

C2_Witness ==
    /\ totalSupply = 2
    /\ \A i \in ValidIds : mintedTokens[i]

\* C3: a cell has an ERC-721 owner (not address(0)) iff its mintedTokens flag
\* is true, after any sequence of mints, color updates, transfers and
\* withdrawals.
C3_OwnerIffClaimed ==
    \A id \in TokenIds : (ownerOf_(id) # ZERO) <=> mintedTokens[id]

\* a withdrawal succeeded while one cell, since transferred, is claimed and
\* another is not
C3_Witness ==
    /\ last.fn = "withdraw" /\ last.err = OK
    /\ \E id \in ValidIds : mintedTokens[id] /\ ownerOf_(id) # claimant[id]
    /\ \E id \in ValidIds : ~mintedTokens[id]

\* C4: ownership gate.  On a claimed cell, updateColor and updateColorBySteps
\* by a caller other than the stored owner fail with "Not the owner of this
\* token" and leave every color unchanged; updateColor by the owner succeeds
\* and getTokenColor then returns the arguments (r, g, b).
C4_ColorReadBack ==
    (last.fn = "updateColor" /\ last.err = OK) =>
        getTokenColor(last.tokenId) = Return(last.args)

C4_OwnershipGate ==
    [][/\ (last'.fn \in UpdateFns /\ mintedTokens[last'.tokenId]) =>
             IF last'.sender # ownerOf_(last'.tokenId)
             THEN last'.err = NotOwner /\ tokenColors' = tokenColors
             ELSE last'.fn = "updateColor" => last'.err = OK
       /\ C4_ColorReadBack']_vars

\* an address that is both approved for the token and an operator of its
\* owner was refused
C4_Witness ==
    /\ last.fn \in UpdateFns
    /\ last.err = NotOwner
    /\ mintedTokens[last.tokenId]
    /\ tokenApprovals[last.tokenId] = last.sender
    /\ isApprovedForAll(ownerOf_(last.tokenId), last.sender)

\* C5 as stated: every successful updateColor or updateColorBySteps on id is
\* made by the caller whose mintGridBox(id) succeeded, also after a transfer.
C5_OnlyClaimantUpdates ==
    (last.fn \in UpdateFns /\ last.err = OK) =>
        last.sender = claimant[last.tokenId]

\* C5 as amended: every successful updateColor or updateColorBySteps on id is
\* made by the current ERC-721 owner of id; the owner of id is set by the
\* successful mintGridBox(id) to its caller and changes afterwards only by a
\* successful transferFrom.
C5_OnlyCurrentOwnerUpdates ==
    [][/\ (last'.fn \in UpdateFns /\ last'.err = OK) =>
             /\ last'.sender = ownerOf_(last'.tokenId)
             /\ owners' = owners
       /\ \A id \in TokenIds :
             owners'[id] # owners[id] =>
                 /\ last'.err = OK
                 /\ \/ last'.fn = "mintGridBox" /\ owners'[id] = claimant'[id]
                    \/ last'.fn = "transferFrom"]_vars

\* the new owner of a transferred token changed its color
C5_Witness ==
    /\ last.fn \in UpdateFns
    /\ last.err = OK
    /\ last.sender # claimant[last.tokenId]
    /\ last.sender = ownerOf_(last.tokenId)

\* C6: a successful mintGridBox(id) by c sets, in one step, mintedTokens[id],
\* makes c the owner of id, adds 1 to totalSupply, sets the color of id to
\* (255,255,255) and emits GridBoxMinted(c, id, (id-1) mod 16, (id-1) div 16);
\* no other cell's flag, owner or color changes.
C6_MintEffect ==
    [][(last'.fn = "mintGridBox" /\ last'.err = OK) =>
          LET id == last'.tokenId
              c == last'.sender
          IN /\ ~mintedTokens[id]
             /\ mintedTokens' = [mintedTokens EXCEPT ![id] = TRUE]
             /\ owners' = [owners EXCEPT ![id] = c]
             /\ totalSupply' = totalSupply + 1
             /\ tokenColors' = [tokenColors EXCEPT
                                  ![id] = [r |-> 255, g |-> 255, b |-> 255]]
             /\ last'.logs = <<[name |-> "GridBoxMinted", who |-> c,
                                tokenId |-> id,
                                data |-> <<(id - 1) % 16, (id - 1) \div 16>>]>>
      ]_vars

\* cell 256 was claimed while cell 1 carried a color of its own
C6_Witness ==
    /\ last.fn = "mintGridBox" /\ last.err = OK
    /\ last.tokenId = 256
    /\ last.logs[1].data = <<15, 15>>
    /\ mintedTokens[1] /\ tokenColors[1] = RGBColor(1, 2, 3)
    /\ ownerOf_(1) # last.sender

\* C7 as stated: updateColor and updateColorBySteps on an unclaimed cell fail
\* with "Token does not exist"; "Not the owner of this token" is reported
\* only for a claimed cell whose owner is not the caller.
C7_UnclaimedIsNotFound ==
    (last.fn \in UpdateFns /\ last.tokenId \in ValidIds) =>
        /\ ~mintedTokens[last.tokenId] => last.err = NotFound
        /\ last.err = NotOwner =>
              mintedTokens[last.tokenId] /\ ownerOf_(last.tokenId) # last.sender

\* C8: mintGridBox(id) with id outside 1..256 fails with "Invalid token ID",
\* leaves mintedTokens, owners, colors and totalSupply unchanged and emits
\* no event.
C8_InvalidIdRejected ==
    [][(last'.fn = "mintGridBox" /\ last'.tokenId \notin 1..256) =>
          /\ last'.err = InvalidId
          /\ last'.logs = <<>>
          /\ UNCHANGED <<mintedTokens, owners, tokenColors, totalSupply>>]_vars

\* id 0 was refused after another cell had been claimed
C8_Witness ==
    /\ last.fn = "mintGridBox"
    /\ last.tokenId = 0
    /\ last.err = InvalidId
    /\ totalSupply = 1

\* C9: step quantization.  updateColorBySteps by the owner with all steps in
\* 0..15 stores per channel 255 for step 15 and step*17 otherwise, a member
\* of {0,17,...,238,255} that fits in 8 bits; with a step above 15 it fails
\* with "Steps must be 0-15" and the color is unchanged.
C9_Quantized(step) == IF step = 15 THEN 255 ELSE step * 17
C9_Table == {17 * k : k \in 0..14} \cup {255}

C9_StepQuantization ==
    [][(/\ last'.fn = "updateColorBySteps"
        /\ mintedTokens[last'.tokenId]
        /\ last'.sender = ownerOf_(last'.tokenId)) =>
          LET id == last'.tokenId
              st == last'.args
          IN IF \A k \in 1..3 : st[k] \in 0..15
             THEN /\ last'.err = OK
                  /\ tokenColors'[id] = [r |-> C9_Quantized(st[1]),
                                         g |-> C9_Quantized(st[2]),
                                         b |-> C9_Quantized(st[3])]
                  /\ \A ch \in {tokenColors'[id].r, tokenColors'[id].g,
                                 tokenColors'[id].b} :
                        ch \in C9_Table /\ ch \in 0..255
             ELSE /\ last'.err = InvalidStep
                  /\ tokenColors' = tokenColors]_vars

C9_Witness ==
    /\ last.fn = "updateColorBySteps" /\ last.err = OK
    /\ last.args = <<14, 0, 7>>
    /\ tokenColors[last.tokenId] = RGBColor(238, 0, 119)

\* C10: coordinate bijection.  For id in 1..256, getCoordinates(id) is a
\* pair in 0..15 x 0..15 that getTokenId takes back to id; for (x, y) in
\* 0..15 x 0..15, getTokenId(x, y) is an id in 1..256 that getCoordinates
\* takes back to (x, y).
C10_CoordinateBijection ==
    /\ (last.fn = "getCoordinates" /\ last.args[1] \in 1..256) =>
          /\ last.err = OK
          /\ last.ret[1] \in 0..15 /\ last.ret[2] \in 0..15
          /\ getTokenId(last.ret[1], last.ret[2]) = Return(<<last.args[1]>>)
    /\ (last.fn = "getTokenId" /\ last.args[1] \in 0..15 /\ last.args[2] \in 0..15) =>
          /\ last.err = OK
          /\ last.ret[1] \in 1..256
          /\ getCoordinates(last.ret[1]) = Return(last.args)

C10_Witness ==
    /\ last.fn = "getTokenId"
    /\ last.args = <<15, 0>>
    /\ last.ret = <<16>>

\* C11: enumeration consistency.  getMintedTokens() returns the claimed ids,
\* each once, in strictly ascending order, and as many as totalSupply,
\* whatever the order of the claims.
C11_EnumerationConsistent ==
    last.fn = "getMintedTokens" =>
        /\ last.err = OK
        /\ Len(last.ret) = totalSupply
        /\ {last.ret[k] : k \in 1..Len(last.ret)} = ClaimedIds
        /\ \A k \in 1..(Len(last.ret) - 1) : last.ret[k] < last.ret[k + 1]

\* both cells are listed in ascending order although the owners show that
\* they were claimed by different accounts
C11_Witness ==
    /\ last.fn = "getMintedTokens"
    /\ last.ret = <<1, 256>>
    /\ claimant[1] # claimant[256]

\* C12: withdrawal atomicity.  When the administrator withdraws a positive
\* balance and the external transfer fails, the call fails with "Failed to
\* send Ether" and the balance (as all the state) is what it was before.
C12_WithdrawAtomic ==
    [][(/\ last'.fn = "withdraw"
        /\ last'.sender = contractOwner
        /\ balance > 0
        /\ last'.args = <<FALSE>>) =>
          /\ last'.err = TransferFailed
          /\ last'.ret = <<>>
          /\ balance' = balance
          /\ UNCHANGED <<cellVars, ercVars, contractOwner>>]_vars

\* a new administrator's withdrawal failed in the transfer
C12_Witness ==
    /\ last.fn = "withdraw"
    /\ last.err = TransferFailed
    /\ balance > 0
    /\ contractOwner = 2
    /\ totalSupply > 0

\* C13: withdraw fails with NotAdmin for every caller but the current
\* administrator, and for the administrator with NoFunds when the balance is
\* zero; otherwise, the transfer succeeding, it sends the whole balance to
\* the administrator, leaves the balance at zero and changes no cell's
\* flag, owner or color nor totalSupply.
C13_WithdrawGate ==
    [][last'.fn = "withdraw" =>
          /\ UNCHANGED <<cellVars, contractOwner>>
          /\ IF last'.sender # contractOwner
             THEN last'.err = NotAdmin /\ balance' = balance
             ELSE IF balance = 0
             THEN last'.err = NoFunds /\ balance' = balance
             ELSE last'.args = <<TRUE>> =>
                     /\ last'.err = OK
                     /\ last'.ret = <<contractOwner, balance>>
                     /\ balance' = 0]_vars

\* the administrator who took over withdrew everything while a cell was
\* claimed
C13_Witness ==
    /\ last.fn = "withdraw"
    /\ last.err = OK
    /\ last.sender = 2
    /\ last.ret = <<2, MaxBalance>>
    /\ balance = 0
    /\ totalSupply > 0

\* C14: metadata rendering.  For a claimed id, tokenURI(id) reports x and y
\* of getCoordinates(id), Red/Green/Blue of getTokenColor(id) and a color hex
\* of '#' and two upper-case hexadecimal digits per channel; directly after
\* the claim of id 1 it reports x=0, y=0, r=g=b=255 and '#FFFFFF'.
C14_ParseDec(str) ==
    LET n == Len(str)
        RECURSIVE sum(_)
        sum(k) == IF k = 0 THEN 0 ELSE sum(k - 1) * 10 + (str[k] - 48)
    IN sum(n)

\* value of an upper-case hexadecimal digit, -1 for any other character
C14_HexValue(ch) ==
    IF ch \in 48..57 THEN ch - 48
    ELSE IF ch \in 65..70 THEN ch - 55
    ELSE -1

C14_Rendered ==
    (last.fn = "tokenURI" /\ last.err = OK) =>
        LET id == last.args[1]
            m == last.ret
            ch(k) == C14_HexValue(m.hex[2 * k]) * 16
                       + C14_HexValue(m.hex[2 * k + 1])
        IN /\ C14_ParseDec(m.name) = id
           /\ <<C14_ParseDec(m.x), C14_ParseDec(m.y)>> = getCoordinates(id).ret
           /\ <<C14_ParseDec(m.r), C14_ParseDec(m.g), C14_ParseDec(m.b)>>
                 = getTokenColor(id).ret
           /\ Len(m.hex) = 7
           /\ m.hex[1] = 35
           /\ \A k \in 2..7 : C14_HexValue(m.hex[k]) >= 0
           /\ <<ch(1), ch(2), ch(3)>> = getTokenColor(id).ret

C14_MetadataRendering ==
    [][/\ C14_Rendered'
       /\ (/\ last.fn = "mintGridBox" /\ last.err = OK /\ last.tokenId = 1
           /\ last'.fn = "tokenURI" /\ last'.args = <<1>>) =>
             /\ last'.err = OK
             /\ last'.ret = [name |-> <<49>>, x |-> <<48>>, y |-> <<48>>,
                             hex |-> <<35, 70, 70, 70, 70, 70, 70>>,
                             r |-> <<50, 53, 53>>, g |-> <<50, 53, 53>>,
                             b |-> <<50, 53, 53>>]]_vars

\* cell 256 with color (27, 228, 189) is rendered as '#1BE4BD' at (15, 15)
C14_Witness ==
    /\ last.fn = "tokenURI" /\ last.err = OK
    /\ last.args = <<256>>
    /\ last.ret.hex = <<35, 49, 66, 69, 52, 66, 68>>
    /\ last.ret.x = <<49, 53>>
    /\ last.ret.r = <<50, 55>>

\* C15: tokenURI(id) fails iff the cell is unclaimed: with "Token does not
\* exist" for every unclaimed or out-of-range id, and not at all for a
\* claimed id, in every reachable state.
C15_TokenURIFailsIffUnclaimed ==
    last.fn = "tokenURI" =>
        IF last.args[1] \in 1..256 /\ mintedTokens[last.args[1]]
        THEN last.err = OK
        ELSE last.err = NotFound

\* id 257 has no metadata while every cell of the model is claimed and one
\* has changed hands
C15_Witness ==
    /\ last.fn = "tokenURI"
    /\ last.args = <<257>>
    /\ last.err = NotFound
    /\ \A id \in ValidIds : mintedTokens[id]
    /\ \E id \in ValidIds : ownerOf_(id) # claimant[id]
\* the events of the log that carry token id `id`, in log order
EventsOf(id) == SelectSeq(events, LAMBDA e : e.tokenId = id)

\* the r, g, b fields of a ColorUpdated event, as a stored color
EventColor(e) == RGBColor(e.data[1], e.data[2], e.data[3])

\* the log of every id is one GridBoxMinted followed by ColorUpdated events,
\* and the last ColorUpdated carries the stored color
C16_LogShape ==
    \A id \in TokenIds :
        LET es == EventsOf(id) IN
        es # <<>> =>
            /\ es[1].name = "GridBoxMinted"
            /\ \A k \in 2..Len(es) : es[k].name = "ColorUpdated"
            /\ es[Len(es)].name = "ColorUpdated" =>
                  EventColor(es[Len(es)]) = tokenColors[id]

\* C16: event ordering per cell.  The events of an id are one GridBoxMinted
\* first, then ColorUpdated events only; every successful color update of id
\* appends, at that step, one ColorUpdated carrying the values it stored (so
\* the events follow the order of the updates), a successful mint appends the
\* GridBoxMinted of its id, a failed operation and any other operation append
\* nothing, and the last ColorUpdated of an id carries its stored color.
C16_EventOrdering ==
    [][/\ C16_LogShape'
       /\ last'.err # OK => events' = events
       /\ (last'.err = OK /\ last'.fn \in UpdateFns) =>
             /\ Len(events') = Len(events) + 1
             /\ SubSeq(events', 1, Len(events)) = events
             /\ LET e == events'[Len(events')]
                    id == last'.tokenId IN
                /\ e.name = "ColorUpdated"
                /\ e.tokenId = id
                /\ e.who = last'.sender
                /\ EventColor(e) = tokenColors'[id]
       /\ (last'.err = OK /\ last'.fn = "mintGridBox") =>
             /\ Len(events') = Len(events) + 1
             /\ SubSeq(events', 1, Len(events)) = events
             /\ events'[Len(events')].name = "GridBoxMinted"
             /\ events'[Len(events')].tokenId = last'.tokenId
       /\ last'.fn \notin UpdateFns \cup {"mintGridBox"} => events' = events
       /\ \A id \in TokenIds :
             tokenColors'[id] # tokenColors[id] =>
                 /\ events' # events
                 /\ events'[Len(events')].tokenId = id]_vars

\* a cell was claimed, colored by its claimant, transferred and colored by
\* the new owner; the latest operation, a failed one, left the log alone
C16_Witness ==
    /\ last.err # OK
    /\ \E id \in ValidIds :
          LET es == EventsOf(id) IN
          /\ Len(es) = 3
          /\ es[2].who # es[3].who
          /\ es[2].data # es[3].data
          /\ EventColor(es[3]) = tokenColors[id]

\* C17: color is mutated only after claim.  In every reachable state the
\* stored color of an unclaimed id is still the initial (0,0,0), getTokenColor
\* and getTokenColorHex on it fail with "Token does not exist", the log holds
\* no event of it, and every ColorUpdated in the log comes after the
\* GridBoxMinted of the same id.
C17_ColorOnlyAfterClaim ==
    /\ \A id \in TokenIds :
          ~mintedTokens[id] =>
              /\ tokenColors[id] = RGBColor(0, 0, 0)
              /\ getTokenColor(id) = Revert(NotFound)
              /\ getTokenColorHex(id) = Revert(NotFound)
              /\ EventsOf(id) = <<>>
    /\ \A k \in 1..Len(events) :
          events[k].name = "ColorUpdated" =>
              \E j \in 1..(k - 1) :
                  /\ events[j].name = "GridBoxMinted"
                  /\ events[j].tokenId = events[k].tokenId

\* a color update was attempted, and refused, on a valid unclaimed cell while
\* another cell has been claimed and colored
C17_Witness ==
    /\ last.fn \in UpdateFns
    /\ last.err # OK
    /\ last.tokenId \in ValidIds
    /\ ~mintedTokens[last.tokenId]
    /\ \E k \in 1..Len(events) : events[k].name = "ColorUpdated"

\* every id whose mintedTokens flag is set, whatever its range
FlaggedIds == {i \in TokenIds : mintedTokens[i]}

\* C18: claims are permanent and bounded.  No step clears a mintedTokens
\* flag or the owner of a claimed id, totalSupply never decreases, and
\* totalSupply counts flagged ids that all lie in 1..256, so it never
\* exceeds 256.
C18_ClaimsPermanentBounded ==
    [][/\ \A id \in TokenIds :
             mintedTokens[id] => mintedTokens'[id] /\ owners'[id] # ZERO
       /\ totalSupply' >= totalSupply
       /\ FlaggedIds' \subseteq 1..MAX_SUPPLY
       /\ totalSupply' = Cardinality(FlaggedIds')
       /\ totalSupply' <= MAX_SUPPLY]_vars

\* every cell of the model is claimed, one of them was transferred, and a
\* mint beyond the grid has just been refused
C18_Witness ==
    /\ last.fn = "mintGridBox"
    /\ last.tokenId = MAX_SUPPLY + 1
    /\ last.err = InvalidId
    /\ \A id \in ValidIds : mintedTokens[id]
    /\ totalSupply = Cardinality(ValidIds)
    /\ \E id \in ValidIds : ownerOf_(id) # claimant[id]

\* C19: frame of a color update.  A successful updateColor or
\* updateColorBySteps on id changes the stored color of id and nothing else:
\* the claimed flags, the owners, totalSupply, the balance, the approvals,
\* the administrator and the color of every other id stay as they were.
C19_UpdateFrame ==
    [][(last'.err = OK /\ last'.fn \in UpdateFns) =>
          /\ mintedTokens' = mintedTokens
          /\ owners' = owners
          /\ totalSupply' = totalSupply
          /\ balance' = balance
          /\ ercVars' = ercVars
          /\ contractOwner' = contractOwner
          /\ \A j \in TokenIds \ {last'.tokenId} :
                tokenColors'[j] = tokenColors[j]]_vars

\* the owner of two claimed cells has just recolored one of them; the other
\* keeps its different color and the contract holds ether
C19_Witness ==
    /\ last.fn \in UpdateFns
    /\ last.err = OK
    /\ balance > 0
    /\ \E j \in ValidIds \ {last.tokenId} :
          /\ ownerOf_(j) = last.sender
          /\ tokenColors[j] # tokenColors[last.tokenId]

\* C20: transfer of a claimed cell.  A successful transfer of id from A to
\* another account B leaves the claimed flag, totalSupply and the stored
\* color of id unchanged; after it updateColor(id, ...) by B succeeds and by
\* A fails with "Not the owner of this token", and so does every actual
\* updateColor call on a claimed id: OK for the current owner, NotOwner for
\* anyone else.
C20_TransferKeepsCell ==
    [][/\ \A id \in ValidIds, a \in Addrs, b \in Addrs :
             ( /\ last'.fn = "transferFrom"
               /\ last'.err = OK
               /\ last'.tokenId = id
               /\ ownerOf_(id) = a
               /\ owners'[id] = b
               /\ a # b ) =>
                 /\ mintedTokens[id] /\ mintedTokens'[id]
                 /\ totalSupply' = totalSupply
                 /\ tokenColors'[id] = tokenColors[id]
                 /\ updateColorErr(b, id)' = OK
                 /\ updateColorErr(a, id)' = NotOwner
       /\ \A id \in ValidIds :
             ( /\ last'.fn = "updateColor"
               /\ last'.tokenId = id
               /\ mintedTokens[id] ) =>
                 last'.err = IF last'.sender = ownerOf_(id) THEN OK
                             ELSE NotOwner]_vars

\* A claimed a cell and transferred it to B; B recolored it, as the log
\* shows, and the update A then tried was refused
C20_Witness ==
    /\ last.fn = "updateColor"
    /\ last.err = NotOwner
    /\ last.sender = claimant[last.tokenId]
    /\ LET es == EventsOf(last.tokenId) IN
       /\ Len(es) = 2
       /\ es[2].name = "ColorUpdated"
       /\ es[2].who = ownerOf_(last.tokenId)
       /\ es[2].who # last.sender
       /\ EventColor(es[2]) = tokenColors[last.tokenId]

\* the color updateColorBySteps stores for the steps of a request
ContractColor(steps) ==
    RGBColor(StepToChannel(steps.r), StepToChannel(steps.g),
             StepToChannel(steps.b))

\* C21: the page's cache agrees with the contract on color updates.  When
\* the transaction of handleUpdateColor is mined successfully the contract
\* stores the color the page computes from the same steps; when the handler
\* then completes, the color the page keeps for the token is the color the
\* contract computes from those steps and isUpdatingColor is false; when the
\* call failed, the page's colors are unchanged and isUpdatingColor is
\* false.
C21_CacheAgreesOnUpdate ==
    [][\A k \in DOMAIN inflight :
          LET req == inflight[k] IN
          req.fn = "updateColorBySteps" =>
             /\ ( /\ req.status = "pending"
                  /\ k \in DOMAIN inflight'
                  /\ inflight'[k].status = "fulfilled" ) =>
                    /\ last'.err = OK
                    /\ tokenColors'[req.tokenId] = newColor(req.steps)
             /\ ( /\ req.status = "pending"
                  /\ k \in DOMAIN inflight'
                  /\ inflight'[k].status = "rejected" ) =>
                    tokenColors' = tokenColors
             /\ (req.status = "fulfilled" /\ inflight' = Settle(k)) =>
                    /\ page'.tokenColors[req.tokenId] = ContractColor(req.steps)
                    /\ ~page'.isUpdatingColor
             /\ (req.status = "rejected" /\ inflight' = Settle(k)) =>
                    /\ page'.tokenColors = page.tokenColors
                    /\ ~page'.isUpdatingColor]_vars

\* the user moved a slider and updated the color of a box; the handler has
\* completed and the page shows the color the contract holds
C21_Witness ==
    /\ inflight = <<>>
    /\ last.fn = "updateColorBySteps"
    /\ last.err = OK
    /\ last.sender = page.connectedAddress
    /\ ~page.isUpdatingColor
    /\ tokenColors[last.tokenId] # RGBColor(255, 255, 255)
    /\ last.tokenId \in DOMAIN page.tokenColors
    /\ page.tokenColors[last.tokenId] = tokenColors[last.tokenId]
    /\ page.tokenColors[last.tokenId] = newColor(page.colorSteps)

\* C22: the page's local mintedTokens set is a subset of the ids claimed in
\* the contract.  An id enters the local set only with a getMintedTokens
\* snapshot that holds it or when the page's own mintGridBox call of that id
\* completes fulfilled, and the completion of a failed mint adds nothing.
C22_LocalMintedSubset ==
    [][/\ page'.mintedTokens \subseteq FlaggedIds'
       /\ \A id \in page'.mintedTokens \ page.mintedTokens :
             \/ /\ inflight' = inflight
                /\ getMintedTokens.err = OK
                /\ page'.mintedTokens =
                      {getMintedTokens.ret[i] : i \in DOMAIN getMintedTokens.ret}
             \/ \E k \in DOMAIN inflight :
                   /\ inflight[k].fn = "mintGridBox"
                   /\ inflight[k].tokenId = id
                   /\ inflight[k].status = "fulfilled"
                   /\ inflight' = Settle(k)
       /\ \A k \in DOMAIN inflight :
             ( /\ inflight[k].fn = "mintGridBox"
               /\ inflight[k].status = "rejected"
               /\ inflight' = Settle(k) ) =>
                 page'.mintedTokens = page.mintedTokens]_vars

\* the user claimed one box through the page; the mint of the other box,
\* which another account had claimed meanwhile, failed and has completed
C22_Witness ==
    /\ inflight = <<>>
    /\ last.fn = "mintGridBox"
    /\ last.sender = page.connectedAddress
    /\ last.err = AlreadyClaimed
    /\ last.tokenId \notin page.mintedTokens
    /\ page.mintedTokens # {}
    /\ page.isMinting = Null
    /\ \A id \in page.mintedTokens : ownerOf_(id) = page.connectedAddress

\* C23: no duplicate mint submission from the page.  While a mintGridBox
\* call of the page for a box is awaited, no second mintGridBox call for the
\* same box is submitted: no two awaited calls are mints of the same id.
C23_NoDuplicateMintInFlight ==
    \A j \in DOMAIN inflight, k \in DOMAIN inflight :
        ( /\ j # k
          /\ inflight[j].fn = "mintGridBox"
          /\ inflight[k].fn = "mintGridBox" ) =>
            inflight[j].tokenId # inflight[k].tokenId

Channels == {"r", "g", "b"}

\* C24: slider round-trip in the page.  Every step 0..15 converted to a
\* channel value by the page (15 -> 255, else s*17) and back with
\* round(value/17) is the same step; the steps recovered from any color the
\* page holds are in 0..15; so colorSteps stays in 0..15 and no update the
\* page submits is rejected with "Steps must be 0-15".
C24_SliderRoundTrip ==
    [][/\ \A ch \in Channels : page'.colorSteps[ch] \in 0..15
       /\ \A id \in DOMAIN page.tokenColors, ch \in Channels :
             /\ Math_round(page.tokenColors[id][ch], 17) \in 0..15
             /\ (page.selectedToken = Null /\ page'.selectedToken = id) =>
                   \A st \in SliderSteps :
                       page.tokenColors[id][ch]
                           = newColor([r |-> st, g |-> st, b |-> st])[ch]
                       => page'.colorSteps[ch] = st
       /\ \A k \in DOMAIN inflight :
             inflight[k].fn = "updateColorBySteps" =>
                /\ ( /\ inflight[k].status = "pending"
                     /\ k \in DOMAIN inflight'
                     /\ inflight'[k].status # "pending" ) =>
                       last'.err # InvalidStep
                /\ ( /\ inflight[k].status = "fulfilled"
                     /\ inflight' = Settle(k) ) =>
                       \A ch \in Channels :
                           Math_round(page'.tokenColors[inflight[k].tokenId][ch],
                                      17) = inflight[k].steps[ch]]_vars

\* the user selected a box whose color had been read from the contract,
\* moved the red slider and updated the color: the steps on the page are
\* those of the update and give the color both sides hold
C24_Witness ==
    /\ inflight = <<>>
    /\ last.fn = "updateColorBySteps"
    /\ last.err = OK
    /\ page.selectedToken = last.tokenId
    /\ last.args = <<page.colorSteps.r, page.colorSteps.g, page.colorSteps.b>>
    /\ page.colorSteps.r \notin {0, 15}
    /\ page.colorSteps.g # 15
    /\ page.tokenColors[last.tokenId] = newColor(page.colorSteps)
    /\ tokenColors[last.tokenId] = page.tokenColors[last.tokenId]

====
